---- MODULE Spec2Model ----
(***************************************************************************)
(* Model of src/server.py (GRAPH-CP, a Graphviz MCP server).               *)
(*                                                                         *)
(* Strings are sequences of one-character strings, a filesystem path is a  *)
(* sequence of components (each a string in that sense).                   *)
(***************************************************************************)
EXTENDS Integers, Sequences, FiniteSets, TLC

VARIABLES
    output_directory,   \* the module-level _output_directory
    dirs,               \* the directories that exist
    files,              \* the regular files that exist, with their content
    symlinks,           \* the symbolic links that exist, with their target
    last,               \* the latest tool call: its arguments and what it did
    calls,              \* the number of tool calls made
    sn,                 \* sanitize_filename: argument and results
    pg,                 \* validate_path_security: arguments and result
    cv,                 \* validate_dot_content: argument and position
    setter,             \* a thread running set_output_location_file
    gen                 \* a thread running generate_dot_file

serverVars == <<output_directory, dirs, files, symlinks, last, calls, setter, gen>>
vars == <<serverVars, sn, pg, cv>>

\* ------------------------------------------------------------------------
\* Bounds
\* ------------------------------------------------------------------------
MaxNameLen == 4
MaxTail == 4
MaxToks == 5
MaxCalls == 2
MaxRounds == 2

\* ------------------------------------------------------------------------
\* Characters and strings
\* ------------------------------------------------------------------------
\* re.sub(r'[<>:"/\\|?*]', ...) : the reserved character class
ReservedChars == {"<", ">", ":", "\"", "/", "\\", "|", "?", "*"}

\* filename.strip('. ') : the characters stripped from both ends
StripSet == {".", " "}

S_output == <<"o", "u", "t", "p", "u", "t">>

RECURSIVE LStrip(_, _)
LStrip(s, cs) ==
    IF s = <<>> THEN <<>>
    ELSE IF Head(s) \in cs THEN LStrip(Tail(s), cs) ELSE s

RECURSIVE RStrip(_, _)
RStrip(s, cs) ==
    IF s = <<>> THEN <<>>
    ELSE IF s[Len(s)] \in cs THEN RStrip(SubSeq(s, 1, Len(s) - 1), cs) ELSE s

\* str.strip(chars)
Strip(s, cs) == RStrip(LStrip(s, cs), cs)

\* re.sub(class, '_', s)
ReSubReserved(s) ==
    IF s = <<>> THEN <<>>
    ELSE [i \in 1..Len(s) |-> IF s[i] \in ReservedChars THEN "_" ELSE s[i]]

\* a plausible slip: the fallback for an emptied name is forgotten
sanitize_filename_nofallback(filename) ==
    Strip(ReSubReserved(filename), StripSet)

sanitize_filename(filename) ==
    LET stripped == Strip(ReSubReserved(filename), StripSet)
    IN  IF stripped = <<>> THEN S_output ELSE stripped

\* ------------------------------------------------------------------------
\* Paths
\* ------------------------------------------------------------------------
S_dot == <<".">>
S_dotdot == <<".", ".">>
S_tmp == <<"t", "m", "p">>
S_etc == <<"e", "t", "c">>
S_passwd == <<"p", "a", "s", "s", "w", "d">>
S_srv == <<"s", "r", "v">>
S_sub == <<"s", "u", "b">>
S_file == <<"f", "i", "l", "e">>
S_lnk == <<"l", "n", "k">>
S_lnk_dot == <<"l", "n", "k", ".", "d", "o", "t">>
S_astarb == <<"a", "*", "b">>
S_newroot == <<"n", "e", "w", "r", "o", "o", "t">>
S_mcp_graphviz_output ==
    <<"m", "c", "p", "_", "g", "r", "a", "p", "h", "v", "i", "z", "_",
      "o", "u", "t", "p", "u", "t">>

\* DOT_BASIC_VALIDATION = re.compile(r'^[^<>|*?]*$')
ForbiddenChars == {"<", ">", "|", "*", "?"}

\* the working directory of the server process, against which Path.resolve()
\* makes a relative path absolute
Cwd == <<S_srv>>

\* Path(tempfile.gettempdir()) / "mcp_graphviz_output"
DefaultRoot == <<S_tmp, S_mcp_graphviz_output>>
NewRoot == <<S_tmp, S_newroot>>

EtcPasswd == <<S_etc, S_passwd>>

\* symbolic links present in the filesystem when the server starts
InitSymlinks ==
    (Append(DefaultRoot, S_lnk) :> EtcPasswd)
        @@ (Append(DefaultRoot, S_lnk_dot) :> EtcPasswd)

\* Path(...).resolve(): "." is dropped, ".." goes to the parent of the path
\* resolved so far, a component that is a symbolic link is replaced by its
\* target
RECURSIVE Walk(_, _, _)
Walk(cur, comps, links) ==
    IF comps = <<>> THEN cur
    ELSE LET c == Head(comps)
             joined == Append(cur, c)
             next == IF c = S_dot \/ c = <<>> THEN cur
                     ELSE IF c = S_dotdot
                          THEN IF cur = <<>> THEN cur ELSE SubSeq(cur, 1, Len(cur) - 1)
                     ELSE IF joined \in DOMAIN links THEN links[joined]
                     ELSE joined
         IN  Walk(next, Tail(comps), links)

Resolve(fp, links) == Walk(IF fp.abs THEN <<>> ELSE Cwd, fp.comps, links)

AbsPath(comps) == [abs |-> TRUE, comps |-> comps]
RelPath(comps) == [abs |-> FALSE, comps |-> comps]

\* DOT_BASIC_VALIDATION.match(str(path)) fails
HasForbidden(path) ==
    \E i \in 1..Len(path) : \E j \in 1..Len(path[i]) : path[i][j] \in ForbiddenChars

\* path.relative_to(base_resolved) does not raise
IsRelativeTo(path, base) ==
    /\ Len(base) <= Len(path)
    /\ SubSeq(path, 1, Len(base)) = base

NoBase == [given |-> FALSE, dir |-> <<>>]
Base(dir) == [given |-> TRUE, dir |-> dir]

\* a plausible slip: the containment test is left out
validate_path_security_nobase(fp, base, links) ==
    LET path == Resolve(fp, links)
    IN  IF HasForbidden(path)
        THEN [ok |-> FALSE, path |-> path]
        ELSE [ok |-> TRUE, path |-> path]

\* ok = FALSE stands for SecurityError
validate_path_security(fp, base, links) ==
    LET path == Resolve(fp, links)
    IN  IF HasForbidden(path)
        THEN [ok |-> FALSE, path |-> path]
        ELSE IF base.given /\ ~IsRelativeTo(path, Resolve(AbsPath(base.dir), links))
        THEN [ok |-> FALSE, path |-> path]
        ELSE [ok |-> TRUE, path |-> path]

\* ------------------------------------------------------------------------
\* DOT content validation
\* ------------------------------------------------------------------------
\* \s of the pattern and the characters str.strip() removes
WhiteSpace == {" ", "\t", "\n"}

\* re.IGNORECASE on the letters the inputs use
Lower(c) ==
    IF c = "D" THEN "d" ELSE IF c = "G" THEN "g" ELSE IF c = "S" THEN "s" ELSE c

\* \w of the pattern
WordChars ==
    {"a", "b", "c", "d", "e", "f", "g", "h", "i", "j", "k", "l", "m", "n", "o",
     "p", "q", "r", "s", "t", "u", "v", "w", "x", "y", "z", "_", "1",
     "D", "G", "S"}

K_strict == <<"s", "t", "r", "i", "c", "t">>
K_graph == <<"g", "r", "a", "p", "h">>
K_digraph == <<"d", "i", "g", "r", "a", "p", "h">>

RECURSIVE SkipSpace(_, _)
SkipSpace(s, i) ==
    IF i <= Len(s) /\ s[i] \in WhiteSpace THEN SkipSpace(s, i + 1) ELSE i

RECURSIVE SkipWord(_, _)
SkipWord(s, i) ==
    IF i <= Len(s) /\ s[i] \in WordChars THEN SkipWord(s, i + 1) ELSE i

HasKeywordAt(s, i, kw) ==
    /\ i + Len(kw) - 1 <= Len(s)
    /\ \A k \in 1..Len(kw) : Lower(s[i + k - 1]) = kw[k]

\* \s+\w*\s*\{.*\}\s*$ from position j
BodyAt(s, j) ==
    LET k == SkipSpace(s, j)
        m == SkipWord(s, k)
        n == SkipSpace(s, m)
    IN  /\ k > j
        /\ n <= Len(s)
        /\ s[n] = "{"
        /\ \E q \in (n + 1)..Len(s) :
              /\ s[q] = "}"
              /\ \A t \in (q + 1)..Len(s) : s[t] \in WhiteSpace

\* (graph|digraph) and the rest of the pattern from position i
GraphAt(s, i) ==
    \/ HasKeywordAt(s, i, K_graph) /\ BodyAt(s, i + Len(K_graph))
    \/ HasKeywordAt(s, i, K_digraph) /\ BodyAt(s, i + Len(K_digraph))

\* DOT_GRAPH_PATTERN.match(s):
\* ^\s*(strict\s+)?(graph|digraph)\s+\w*\s*\{.*\}\s*$ with DOTALL, IGNORECASE
DOT_GRAPH_PATTERN(s) ==
    LET i == SkipSpace(s, 1)
        a == i + Len(K_strict)
    IN  \/ GraphAt(s, i)
        \/ /\ HasKeywordAt(s, i, K_strict)
           /\ SkipSpace(s, a) > a
           /\ GraphAt(s, SkipSpace(s, a))

RECURSIVE CountChar(_, _)
CountChar(s, c) ==
    IF s = <<>> THEN 0
    ELSE (IF Head(s) = c THEN 1 ELSE 0) + CountChar(Tail(s), c)

\* not dot_content.strip()
IsBlank(s) == Strip(s, WhiteSpace) = <<>>

\* DOT_GRAPH_PATTERN.match(dot_content.strip())
MatchesShape(s) == DOT_GRAPH_PATTERN(Strip(s, WhiteSpace))

\* a plausible slip: the brace count is not compared
BracesBalanced_unchecked(s) == TRUE

\* open_braces == close_braces
BracesBalanced(s) == CountChar(s, "{") = CountChar(s, "}")

\* validate_dot_content; accepts is the verdict of the renderer's compile
\* check (Source(dot_content).pipe()), which is consulted only when reached.
\* ok = FALSE stands for DOTSyntaxError.
validate_dot_content(dot_content, accepts) ==
    IF IsBlank(dot_content)
    THEN [ok |-> FALSE, msg |-> "empty", piped |-> FALSE]
    ELSE IF ~MatchesShape(dot_content)
    THEN [ok |-> FALSE, msg |-> "shape", piped |-> FALSE]
    ELSE IF ~BracesBalanced(dot_content)
    THEN [ok |-> FALSE, msg |-> "braces", piped |-> FALSE]
    ELSE IF ~accepts
    THEN [ok |-> FALSE, msg |-> "renderer", piped |-> TRUE]
    ELSE [ok |-> TRUE, msg |-> "none", piped |-> TRUE]

\* descriptions
D_empty == <<>>
D_blank == <<" ", "\n">>
D_not_a_graph == <<"n", "o", "t", " ", "a", " ", "g", "r", "a", "p", "h">>
D_unbalanced == <<"d", "i", "g", "r", "a", "p", "h", " ", "{", " ">>
D_nested_open == <<"d", "i", "g", "r", "a", "p", "h", " ", "G", " ", "{", " ", "{", " ", "}">>
D_G == <<"d", "i", "g", "r", "a", "p", "h", " ", "G", " ", "{", " ", "a", " ", "-", ">", " ", "b", ";", " ", "}">>
D_bad_edge == <<"d", "i", "g", "r", "a", "p", "h", " ", "G", " ", "{", " ", "-", ">", " ", "}">>
D_tight == <<"d", "i", "g", "r", "a", "p", "h", "{", "a", "-", ">", "b", "}">>

\* ------------------------------------------------------------------------
\* Filesystem
\* ------------------------------------------------------------------------
S_ro == <<"r", "o">>
S_x == <<"x">>
S_new == <<"n", "e", "w">>
S_out == <<"o", "u", "t">>
Ext_dot == <<".", "d", "o", "t">>
Ext_png == <<".", "p", "n", "g">>

\* a directory the server process may not write to (os.access(.., W_OK) fails)
Unwritable == {<<S_ro>>}

\* directories present when the server starts
InitDirs == {<<S_tmp>>, <<S_etc>>, <<S_srv>>, <<S_ro>>}

Prefixes(p) == {SubSeq(p, 1, k) : k \in 1..Len(p)}

\* Path.mkdir(parents=True, exist_ok=True) raises: a regular file is in the way
MkdirFails(p, fs) == \E q \in Prefixes(p) : q \in DOMAIN fs

\* Path.mkdir(parents=True, exist_ok=True)
Mkdir(p, ds) == ds \cup Prefixes(p)

\* the file at path p is written with content c
WriteFile(fs, p, c) == [q \in (DOMAIN fs) \cup {p} |-> IF q = p THEN c ELSE fs[q]]
RemoveKey(f, p) == [q \in (DOMAIN f) \ {p} |-> f[q]]

\* the image the renderer produces for a description
PngOf(desc) == <<"P", "N", "G">> \o desc

\* ------------------------------------------------------------------------
\* Joining and suffixes (pathlib)
\* ------------------------------------------------------------------------
RECURSIVE SplitSlash(_, _)
SplitSlash(s, cur) ==
    IF s = <<>> THEN <<cur>>
    ELSE IF Head(s) = "/" THEN <<cur>> \o SplitSlash(Tail(s), <<>>)
    ELSE SplitSlash(Tail(s), Append(cur, Head(s)))

\* output_dir / clean_filename : a name starting with "/" replaces the
\* directory, any other name is appended component by component
Join(dir, name) ==
    IF name # <<>> /\ Head(name) = "/"
    THEN AbsPath(SplitSlash(name, <<>>))
    ELSE AbsPath(dir \o SplitSlash(name, <<>>))

\* str.endswith
EndsWith(s, suf) ==
    /\ Len(suf) <= Len(s)
    /\ SubSeq(s, Len(s) - Len(suf) + 1, Len(s)) = suf

\* if not clean_filename.endswith(ext): clean_filename += ext
AddExt(name, ext) == IF EndsWith(name, ext) THEN name ELSE name \o ext

RECURSIVE RFindDot(_, _)
RFindDot(name, i) ==
    IF i = 0 THEN 0 ELSE IF name[i] = "." THEN i ELSE RFindDot(name, i - 1)

\* PurePath.suffix of a final component
Suffix(name) ==
    LET i == RFindDot(name, Len(name))
    IN  IF 1 < i /\ i < Len(name) THEN SubSeq(name, i, Len(name)) ELSE <<>>

\* a plausible slip: the suffix is appended instead of replaced
with_suffix_append(fp, suf) ==
    LET n == Len(fp.comps)
    IN  [fp EXCEPT !.comps[n] = fp.comps[n] \o suf]

\* PurePath.with_suffix
with_suffix(fp, suf) ==
    LET n == Len(fp.comps)
        name == fp.comps[n]
        old == Suffix(name)
    IN  [fp EXCEPT !.comps[n] = SubSeq(name, 1, Len(name) - Len(old)) \o suf]

\* ------------------------------------------------------------------------
\* The server: state and tool handlers
\* ------------------------------------------------------------------------
\* _output_directory: Optional[Path]
None == [is_none |-> TRUE, path |-> <<>>]
Dir(p) == [is_none |-> FALSE, path |-> p]

DEFAULT_PNG_SIZE == <<500, 500>>
MaxDimension == 10000

\* a plausible slip: the configured directory is ignored
ensure_output_directory_default(root, ds, fs) ==
    IF MkdirFails(DefaultRoot, fs)
    THEN [root |-> Dir(DefaultRoot), dirs |-> ds, ok |-> FALSE, dir |-> DefaultRoot]
    ELSE [root |-> Dir(DefaultRoot), dirs |-> Mkdir(DefaultRoot, ds), ok |-> TRUE,
          dir |-> DefaultRoot]

\* ensure_output_directory; ok = FALSE stands for FileOperationError
ensure_output_directory(root, ds, fs) ==
    LET r == IF root.is_none THEN Dir(DefaultRoot) ELSE root
    IN  IF MkdirFails(r.path, fs)
        THEN [root |-> r, dirs |-> ds, ok |-> FALSE, dir |-> r.path]
        ELSE [root |-> r, dirs |-> Mkdir(r.path, ds), ok |-> TRUE, dir |-> r.path]

\* a plausible slip: the directory is recorded before it is known to be
\* writable
set_output_location_file_early(st, directory_path) ==
    LET v == validate_path_security(directory_path, NoBase, st.symlinks)
    IN  IF ~v.ok
        THEN [root |-> st.root, dirs |-> st.dirs, result |-> "SecurityError"]
        ELSE IF MkdirFails(v.path, st.files)
        THEN [root |-> st.root, dirs |-> st.dirs, result |-> "FileOperationError"]
        ELSE IF v.path \in Unwritable
        THEN [root |-> Dir(v.path), dirs |-> Mkdir(v.path, st.dirs),
              result |-> "FileOperationError"]
        ELSE [root |-> Dir(v.path), dirs |-> Mkdir(v.path, st.dirs), result |-> "ok"]

\* set_output_location_file
set_output_location_file(st, directory_path) ==
    LET v == validate_path_security(directory_path, NoBase, st.symlinks)
    IN  IF ~v.ok
        THEN [root |-> st.root, dirs |-> st.dirs, result |-> "SecurityError"]
        ELSE IF MkdirFails(v.path, st.files)
        THEN [root |-> st.root, dirs |-> st.dirs, result |-> "FileOperationError"]
        ELSE IF v.path \in Unwritable
        THEN [root |-> st.root, dirs |-> Mkdir(v.path, st.dirs),
              result |-> "FileOperationError"]
        ELSE [root |-> Dir(v.path), dirs |-> Mkdir(v.path, st.dirs), result |-> "ok"]

\* the verdict of the renderer's compile check on the sample descriptions:
\* of those that pass the structural checks, these are well-formed DOT
ValidDot == {D_G, D_tight}
IsValidDot(desc) == desc \in ValidDot

\* a plausible slip: the upper bound is not enforced
DimsValid_noupper(width, height) == ~(width <= 0 \/ height <= 0)

\* neither "width <= 0 or height <= 0" nor "width > 10000 or height > 10000"
DimsValid(width, height) ==
    /\ ~(width <= 0 \/ height <= 0)
    /\ ~(width > MaxDimension \/ height > MaxDimension)

\* what a handler leaves behind: the state, and what the call did
Outcome(st) ==
    [root |-> st.root, dirs |-> st.dirs, files |-> st.files,
     symlinks |-> st.symlinks, result |-> "ok", msg |-> "none",
     piped |-> FALSE, ensured |-> FALSE, written |-> {},
     path |-> AbsPath(<<>>), confined |-> AbsPath(<<>>),
     checked |-> AbsPath(<<>>), env |-> "unused"]

\* generate_dot_file from the sanitizing of the name to the write, given the
\* directory ensure_output_directory returned; write_ok says whether open()
\* and write() succeed
write_dot_file(b, output_dir, dot_content, filename, write_ok) ==
    LET clean_filename == AddExt(sanitize_filename(filename), Ext_dot)
        file_path == Join(output_dir, clean_filename)
        c == validate_path_security(file_path, Base(output_dir), b.symlinks)
        real == Resolve(file_path, b.symlinks)
        b2 == [b EXCEPT !.confined = file_path, !.path = file_path]
    IN  IF ~c.ok THEN [b2 EXCEPT !.result = "SecurityError"]
        ELSE IF ~write_ok \/ real \in b.dirs
        THEN [b2 EXCEPT !.result = "FileOperationError", !.env = "write_fails"]
        ELSE [b2 EXCEPT !.files = WriteFile(b.files, real, dot_content),
                        !.written = {real}, !.env = "write_ok"]

\* generate_dot_file
generate_dot_file(st, dot_content, filename, write_ok) ==
    LET v == validate_dot_content(dot_content, IsValidDot(dot_content))
        b == [Outcome(st) EXCEPT !.msg = v.msg, !.piped = v.piped]
    IN  IF ~v.ok THEN [b EXCEPT !.result = "DOTSyntaxError"]
        ELSE
        LET e == ensure_output_directory(st.root, st.dirs, st.files)
            b1 == [b EXCEPT !.root = e.root, !.dirs = e.dirs, !.ensured = TRUE]
        IN  IF ~e.ok THEN [b1 EXCEPT !.result = "FileOperationError"]
            ELSE write_dot_file(b1, e.dir, dot_content, filename, write_ok)

\* source.render(filename=str(file_path.with_suffix('')), cleanup=True):
\* the renderer saves the description at src_path, renders src_path + ".png"
\* (outcome "ok"), fails after saving (outcome "raise") or returns without
\* an image (outcome "nofile"); after a return it removes src_path.
Render(fs, links, dot_content, src_path, outcome) ==
    LET n == Len(src_path.comps)
        out_path == [src_path EXCEPT !.comps[n] = src_path.comps[n] \o Ext_png]
        src_real == Resolve(src_path, links)
        out_real == Resolve(out_path, links)
        saved == WriteFile(fs, src_real, dot_content)
        rendered == IF outcome = "ok"
                    THEN WriteFile(saved, out_real, PngOf(dot_content)) ELSE saved
        src_is_link == src_path.comps \in DOMAIN links
    IN  IF outcome = "raise"
        THEN [files |-> saved, symlinks |-> links, written |-> {src_real},
              raised |-> TRUE]
        ELSE [files |-> IF src_is_link THEN rendered ELSE RemoveKey(rendered, src_real),
              symlinks |-> IF src_is_link THEN RemoveKey(links, src_path.comps) ELSE links,
              written |-> IF outcome = "ok" THEN {src_real, out_real} ELSE {src_real},
              raised |-> FALSE]

\* generate_png
generate_png(st, dot_content, filename, width, height, outcome) ==
    LET v == validate_dot_content(dot_content, IsValidDot(dot_content))
        b == [Outcome(st) EXCEPT !.msg = v.msg, !.piped = v.piped]
    IN  IF ~v.ok THEN [b EXCEPT !.result = "DOTSyntaxError"]
        ELSE IF ~DimsValid(width, height) THEN [b EXCEPT !.result = "ValueError"]
        ELSE
        LET e == ensure_output_directory(st.root, st.dirs, st.files)
            b1 == [b EXCEPT !.root = e.root, !.dirs = e.dirs, !.ensured = TRUE]
        IN  IF ~e.ok THEN [b1 EXCEPT !.result = "FileOperationError"]
            ELSE
            LET clean_filename == AddExt(sanitize_filename(filename), Ext_png)
                file_path == Join(e.dir, clean_filename)
                c == validate_path_security(file_path, Base(e.dir), st.symlinks)
                b2 == [b1 EXCEPT !.confined = file_path]
            IN  IF ~c.ok THEN [b2 EXCEPT !.result = "SecurityError"]
                ELSE
                LET src_path == with_suffix(file_path, <<>>)
                    actual_file_path == with_suffix(file_path, Ext_png)
                    r == Render(st.files, st.symlinks, dot_content, src_path, outcome)
                    b3 == [b2 EXCEPT !.env = outcome]
                    b4 == [b3 EXCEPT !.files = r.files, !.symlinks = r.symlinks,
                                     !.written = r.written]
                    b5 == [b4 EXCEPT !.checked = actual_file_path]
                IN  IF Resolve(src_path, st.symlinks) \in e.dirs
                    THEN [b3 EXCEPT !.result = "FileOperationError"]
                    ELSE IF r.raised
                    THEN [b4 EXCEPT !.result = "FileOperationError"]
                    ELSE IF Resolve(actual_file_path, r.symlinks) \notin DOMAIN r.files
                    THEN [b5 EXCEPT !.result = "FileOperationError"]
                    ELSE [b5 EXCEPT !.path = actual_file_path]

\* ------------------------------------------------------------------------
\* Specification of sanitize_filename as a pure function
\* ------------------------------------------------------------------------
NameAlphabet == ReservedChars \cup {"a", ".", " "}

\* the strings of length n over an alphabet
StringsOfLen(alpha, n) == [1..n -> alpha]

SnIdle == [pc |-> "idle", x |-> <<>>, out |-> <<>>, out2 |-> <<>>]
PgIdle == [pc |-> "idle", p |-> AbsPath(<<>>), r |-> <<>>, ok |-> FALSE, path |-> <<>>]
CvIdle == [pc |-> "idle", desc |-> <<>>, pipes |-> 0, msg |-> "none"]

EmptyMap == [p \in {} |-> <<>>]

NoCall ==
    [op |-> "none", arg |-> AbsPath(<<>>), desc |-> <<>>, name |-> <<>>,
     width |-> 0, height |-> 0, result |-> "ok", msg |-> "none",
     piped |-> FALSE, ensured |-> FALSE, written |-> {},
     path |-> AbsPath(<<>>), confined |-> AbsPath(<<>>),
     checked |-> AbsPath(<<>>), env |-> "unused"]

SetterIdle == [pc |-> "idle", arg |-> AbsPath(<<>>), pending |-> None, rounds |-> 0]

GenIdle ==
    [pc |-> "idle", desc |-> <<>>, name |-> <<>>, ensured |-> <<>>,
     output_dir |-> <<>>, result |-> "none", rounds |-> 0]

ServerIdle ==
    /\ setter = SetterIdle
    /\ gen = GenIdle
    /\ output_directory = None
    /\ dirs = InitDirs
    /\ files = EmptyMap
    /\ symlinks = EmptyMap
    /\ last = NoCall
    /\ calls = 0

SanitizeInit ==
    /\ \E n \in 0..MaxNameLen : \E x \in StringsOfLen(NameAlphabet, n) :
          sn = [pc |-> "in", x |-> x, out |-> <<>>, out2 |-> <<>>]
    /\ pg = PgIdle
    /\ cv = CvIdle
    /\ ServerIdle

SanitizeCall ==
    /\ sn.pc = "in"
    /\ sn' = [sn EXCEPT !.pc = "out",
                        !.out = sanitize_filename(sn.x),
                        !.out2 = sanitize_filename(sanitize_filename(sn.x))]
    /\ UNCHANGED <<serverVars, pg, cv>>

SanitizeNext == SanitizeCall

SpecSanitize == SanitizeInit /\ [][SanitizeNext]_vars

\* C3: sanitize_filename is total and idempotent, its result is never empty,
\* holds no reserved character and no leading or trailing dot or space; the
\* empty name and "..." both give the fallback name "output".
C3_SanitizeIdempotent ==
    sn.pc = "out" =>
        /\ sn.out2 = sn.out
        /\ sn.out # <<>>
        /\ \A i \in 1..Len(sn.out) : sn.out[i] \notin ReservedChars
        /\ sn.out[1] \notin StripSet
        /\ sn.out[Len(sn.out)] \notin StripSet
        /\ (sn.x \in {<<>>, <<".", ".", ".">>} => sn.out = S_output)

C3_Witness ==
    /\ sn.pc = "out"
    /\ sn.x = <<".", ".", ".">>
    /\ sn.out = S_output

\* ------------------------------------------------------------------------
\* Specification of validate_path_security as a pure function
\* ------------------------------------------------------------------------
PathComps == {S_dotdot, S_dot, S_sub, S_file, S_etc, S_passwd, S_astarb, S_lnk}

PathRoots == {DefaultRoot, NewRoot}

\* a candidate is a tail below the root, below "/" or below the working
\* directory
PathCandidate(kind, r, t) ==
    IF kind = "under" THEN AbsPath(r \o t)
    ELSE IF kind = "abs" THEN AbsPath(t)
    ELSE RelPath(t)

PathInit ==
    /\ \E r \in PathRoots, kind \in {"under", "abs", "rel"}, n \in 0..MaxTail :
        \E t \in StringsOfLen(PathComps, n) :
          pg = [pc |-> "in", p |-> PathCandidate(kind, r, t), r |-> r,
                ok |-> FALSE, path |-> <<>>]
    /\ sn = SnIdle
    /\ cv = CvIdle
    /\ ServerIdle

PathCall ==
    /\ pg.pc = "in"
    /\ LET v == validate_path_security(pg.p, Base(pg.r), InitSymlinks)
       IN  pg' = [pg EXCEPT !.pc = "out", !.ok = v.ok, !.path = v.path]
    /\ UNCHANGED <<serverVars, sn, cv>>

PathNext == PathCall

SpecPath == PathInit /\ [][PathNext]_vars

CanonP == Resolve(pg.p, InitSymlinks)
CanonR == Resolve(AbsPath(pg.r), InitSymlinks)

\* C1 as stated: validate_path_security(P, R) succeeds exactly when the
\* canonical form of P is R or a descendant of R.
C1_ConfineIffDescendant ==
    pg.pc = "out" => (pg.ok <=> IsRelativeTo(CanonP, CanonR))

\* C1 amended: validate_path_security(P, R) succeeds exactly when the
\* canonical form of P holds none of the characters < > | * ? and is R or a
\* descendant of R; R/../../etc/passwd fails and R/sub/file succeeds.
C1_ConfineIffCleanDescendant ==
    pg.pc = "out" =>
        /\ pg.ok <=> (~HasForbidden(CanonP) /\ IsRelativeTo(CanonP, CanonR))
        /\ pg.ok => pg.path = CanonP
        /\ pg.p = AbsPath(pg.r \o <<S_dotdot, S_dotdot, S_etc, S_passwd>>) => ~pg.ok
        /\ pg.p = AbsPath(pg.r \o <<S_sub, S_file>>) => pg.ok

C1_Witness ==
    /\ pg.pc = "out"
    /\ pg.p = AbsPath(pg.r \o <<S_dotdot, S_dotdot, S_etc, S_passwd>>)
    /\ ~pg.ok
    /\ pg.path = EtcPasswd

\* ------------------------------------------------------------------------
\* Specification of validate_dot_content, one step per check
\* ------------------------------------------------------------------------
T_sp == <<" ">>
T_G == <<"G">>
T_open == <<"{">>
T_close == <<"}">>
T_edge == <<"a", "-", ">", "b">>

DotTokens == {K_strict, K_graph, K_digraph, T_sp, T_G, T_open, T_close, T_edge}

RECURSIVE Flatten(_)
Flatten(ts) == IF ts = <<>> THEN <<>> ELSE Head(ts) \o Flatten(Tail(ts))

DescSamples ==
    {D_empty, D_blank, D_not_a_graph, D_unbalanced, D_nested_open, D_G, D_tight}

ValidateInit ==
    /\ \/ \E d \in DescSamples :
             cv = [pc |-> "empty_check", desc |-> d, pipes |-> 0, msg |-> "none"]
       \/ \E n \in 0..MaxToks : \E ts \in StringsOfLen(DotTokens, n) :
             cv = [pc |-> "empty_check", desc |-> Flatten(ts), pipes |-> 0,
                   msg |-> "none"]
    /\ sn = SnIdle
    /\ pg = PgIdle
    /\ ServerIdle

\* if not dot_content.strip(): raise DOTSyntaxError
VdCheckEmpty ==
    /\ cv.pc = "empty_check"
    /\ cv' = IF IsBlank(cv.desc)
             THEN [cv EXCEPT !.pc = "rejected", !.msg = "empty"]
             ELSE [cv EXCEPT !.pc = "pattern_check"]
    /\ UNCHANGED <<serverVars, sn, pg>>

\* if not DOT_GRAPH_PATTERN.match(dot_content.strip()): raise DOTSyntaxError
VdCheckPattern ==
    /\ cv.pc = "pattern_check"
    /\ cv' = IF ~MatchesShape(cv.desc)
             THEN [cv EXCEPT !.pc = "rejected", !.msg = "shape"]
             ELSE [cv EXCEPT !.pc = "brace_check"]
    /\ UNCHANGED <<serverVars, sn, pg>>

\* if open_braces != close_braces: raise DOTSyntaxError
VdCheckBraces ==
    /\ cv.pc = "brace_check"
    /\ cv' = IF ~BracesBalanced(cv.desc)
             THEN [cv EXCEPT !.pc = "rejected", !.msg = "braces"]
             ELSE [cv EXCEPT !.pc = "pipe"]
    /\ UNCHANGED <<serverVars, sn, pg>>

\* Source(dot_content).pipe(): the renderer accepts or reports an error
VdPipe ==
    /\ cv.pc = "pipe"
    /\ \E accepts \in BOOLEAN :
          cv' = IF accepts
                THEN [cv EXCEPT !.pc = "accepted", !.pipes = cv.pipes + 1]
                ELSE [cv EXCEPT !.pc = "rejected", !.pipes = cv.pipes + 1,
                                !.msg = "renderer"]
    /\ UNCHANGED <<serverVars, sn, pg>>

ValidateNext == VdCheckEmpty \/ VdCheckPattern \/ VdCheckBraces \/ VdPipe

SpecValidate == ValidateInit /\ [][ValidateNext]_vars

CvDone == cv.pc \in {"accepted", "rejected"}

CheapChecksPass ==
    /\ ~IsBlank(cv.desc)
    /\ MatchesShape(cv.desc)
    /\ CountChar(cv.desc, "{") = CountChar(cv.desc, "}")

\* C5: the renderer's compile check is invoked only after the cheap checks
\* passed; an input that is blank, misses the graph/digraph shape or has
\* unequal brace counts ends in DOTSyntaxError with no renderer invocation
\* (so "", "not a graph" and "digraph { "), and "digraph G { a -> b; }"
\* reaches the renderer.
C5_RendererAfterCheapChecks ==
    /\ cv.pipes > 0 => CheapChecksPass
    /\ cv.pc = "pipe" => CheapChecksPass
    /\ (CvDone /\ ~CheapChecksPass) =>
          cv.pc = "rejected" /\ cv.pipes = 0 /\ cv.msg \in {"empty", "shape", "braces"}
    /\ (CvDone /\ cv.desc \in {D_empty, D_not_a_graph, D_unbalanced}) =>
          cv.pc = "rejected" /\ cv.pipes = 0
    /\ (CvDone /\ cv.desc = D_G) => cv.pipes = 1

C5_Witness ==
    \/ cv.desc = D_G /\ cv.pc = "accepted" /\ cv.pipes = 1
    \/ cv.desc = D_nested_open /\ cv.pc = "rejected" /\ cv.msg = "braces" /\ cv.pipes = 0

\* ------------------------------------------------------------------------
\* Specification of the server: a sequence of tool calls
\* ------------------------------------------------------------------------
N_t1 == <<"t", "1">>
N_a_png == <<"a", ".", "p", "n", "g">>
N_a_b == <<"a", ".", "b">>
N_up_x == <<".", ".", "/", "x">>

SetInputs ==
    {AbsPath(NewRoot), AbsPath(<<S_tmp, S_astarb>>), AbsPath(<<S_ro>>),
     AbsPath(<<S_etc, S_passwd, S_x>>), RelPath(<<S_out, S_dotdot, S_new>>)}

DescInputs == {D_G, D_tight}

NameInputs == {N_t1, S_lnk, N_a_png, N_a_b, N_up_x}

DimInputs ==
    {DEFAULT_PNG_SIZE, <<0, 500>>, <<500, 20000>>, <<MaxDimension, MaxDimension>>,
     <<MaxDimension + 1, 1>>, <<1, -1>>}

\* what the filesystem holds when the server starts: nothing of the server's,
\* an output directory left by an earlier run with symbolic links in it, or a
\* regular file where the default output directory would go
Init ==
    /\ output_directory = None
    /\ last = NoCall
    /\ calls = 0
    /\ \E env \in {"fresh", "linked", "blocked"} :
          /\ dirs = IF env = "linked" THEN Mkdir(DefaultRoot, InitDirs) ELSE InitDirs
          /\ symlinks = IF env = "linked" THEN InitSymlinks ELSE EmptyMap
          /\ files = IF env = "blocked"
                     THEN (EtcPasswd :> S_x) @@ (DefaultRoot :> S_x)
                     ELSE (EtcPasswd :> S_x)
    /\ sn = SnIdle
    /\ pg = PgIdle
    /\ cv = CvIdle
    /\ setter = SetterIdle
    /\ gen = GenIdle

State == [root |-> output_directory, dirs |-> dirs, files |-> files,
          symlinks |-> symlinks]

Record(op, arg, desc, name, width, height, o) ==
    [op |-> op, arg |-> arg, desc |-> desc, name |-> name,
     width |-> width, height |-> height, result |-> o.result, msg |-> o.msg,
     piped |-> o.piped, ensured |-> o.ensured, written |-> o.written,
     path |-> o.path, confined |-> o.confined, checked |-> o.checked,
     env |-> o.env]

\* the environment's choices matter only to a call that gets as far as the
\* write or the rendering
WriteOutcomes(dot_content, filename) ==
    IF generate_dot_file(State, dot_content, filename, TRUE).env = "unused"
    THEN {TRUE} ELSE BOOLEAN

RenderOutcomes(dot_content, filename, dim) ==
    IF generate_png(State, dot_content, filename, dim[1], dim[2], "ok").env = "unused"
    THEN {"ok"} ELSE {"ok", "raise", "nofile"}

SetOutputLocation ==
    /\ calls < MaxCalls
    /\ \E directory_path \in SetInputs :
          LET o == set_output_location_file(State, directory_path)
          IN  /\ output_directory' = o.root
              /\ dirs' = o.dirs
              /\ last' = [NoCall EXCEPT !.op = "set", !.arg = directory_path,
                                        !.result = o.result]
    /\ calls' = calls + 1
    /\ UNCHANGED <<files, symlinks, sn, pg, cv, setter, gen>>

GenerateDot ==
    /\ calls < MaxCalls
    /\ \E dot_content \in DescInputs, filename \in NameInputs :
        \E write_ok \in WriteOutcomes(dot_content, filename) :
          LET o == generate_dot_file(State, dot_content, filename, write_ok)
          IN  /\ output_directory' = o.root
              /\ dirs' = o.dirs
              /\ files' = o.files
              /\ last' = Record("dot", AbsPath(<<>>), dot_content, filename, 0, 0, o)
    /\ calls' = calls + 1
    /\ UNCHANGED <<symlinks, sn, pg, cv, setter, gen>>

GeneratePng ==
    /\ calls < MaxCalls
    /\ \E dot_content \in DescInputs, filename \in NameInputs, dim \in DimInputs :
        \E outcome \in RenderOutcomes(dot_content, filename, dim) :
          LET o == generate_png(State, dot_content, filename, dim[1], dim[2], outcome)
          IN  /\ output_directory' = o.root
              /\ dirs' = o.dirs
              /\ files' = o.files
              /\ symlinks' = o.symlinks
              /\ last' = Record("png", AbsPath(<<>>), dot_content, filename,
                                dim[1], dim[2], o)
    /\ calls' = calls + 1
    /\ UNCHANGED <<sn, pg, cv, setter, gen>>

Next == SetOutputLocation \/ GenerateDot \/ GeneratePng

Spec == Init /\ [][Next]_vars

\* ------------------------------------------------------------------------
\* Properties of the server
\* ------------------------------------------------------------------------
\* the output root in force: the directory set by the latest successful
\* set_output_location_file, else the default
InForce == IF output_directory.is_none THEN DefaultRoot ELSE output_directory.path

IsGenerate(call) == call.op \in {"dot", "png"}

\* C2: every file a generate call writes or renders lies inside the output
\* root in force at that call, and a call that ends in SecurityError has done
\* no file I/O.
C2_WritesInsideRoot ==
    [][IsGenerate(last') =>
          /\ \A p \in last'.written : IsRelativeTo(p, InForce)
          /\ last'.result = "SecurityError" =>
                files' = files /\ symlinks' = symlinks /\ last'.written = {}]_vars

\* C4: generate_dot_file("digraph{a->b}", "t1") succeeds unless the file
\* operations themselves fail, and after any successful generate_dot_file the
\* file at the returned path holds the description verbatim.
C4_RoundTrip ==
    last.op = "dot" =>
        /\ (last.desc = D_tight /\ last.name = N_t1 /\ last.result # "FileOperationError")
              => last.result = "ok"
        /\ last.result = "ok" =>
              /\ Resolve(last.path, symlinks) \in DOMAIN files
              /\ files[Resolve(last.path, symlinks)] = last.desc

BadDims(call) ==
    \/ call.width <= 0
    \/ call.height <= 0
    \/ call.width > 10000
    \/ call.height > 10000

\* C6: for a description that passes validation, generate_png with a width or
\* height that is not positive or exceeds 10000 fails with ValueError, and
\* it fails before the output directory is ensured or any file is rendered.
C6_BadDimensionsValueError ==
    [][(last'.op = "png" /\ last'.msg = "none" /\ BadDims(last')) =>
          /\ last'.result = "ValueError"
          /\ ~last'.ensured
          /\ output_directory' = output_directory
          /\ dirs' = dirs
          /\ files' = files
          /\ symlinks' = symlinks]_vars

C6_Witness ==
    /\ last.op = "png"
    /\ last.desc = D_G
    /\ last.width = 500
    /\ last.height = 20000
    /\ last.result = "ValueError"
    /\ output_directory = None

\* C7: a set_output_location_file call that fails (SecurityError or
\* FileOperationError) leaves the output root as it was before the call.
C7_FailedSetKeepsRoot ==
    [][(last'.op = "set" /\ last'.result # "ok") =>
          output_directory' = output_directory]_vars

C7_Witness ==
    /\ last.op = "set"
    /\ last.arg = AbsPath(<<S_ro>>)
    /\ last.result = "FileOperationError"
    /\ <<S_ro>> \in dirs
    /\ output_directory = Dir(NewRoot)

\* C8 as stated: the generate operations (and ensure_output_directory in
\* them) leave the output-root variable unchanged, no operation resets it to
\* unset, and no directory is deleted.
C8_OnlySetMutatesRoot ==
    [][/\ IsGenerate(last') => output_directory' = output_directory
       /\ ~output_directory.is_none => ~output_directory'.is_none
       /\ dirs \subseteq dirs']_vars

\* C8 amended: the generate operations change the output-root variable only
\* by initialising it from unset to the default directory (also when creating
\* that directory then fails); once it is set they leave it unchanged; no
\* operation resets it to unset, and no directory is deleted.
C8_GenerateOnlyInitialisesRoot ==
    [][/\ IsGenerate(last') =>
             \/ output_directory' = output_directory
             \/ /\ output_directory.is_none
                /\ output_directory' = Dir(DefaultRoot)
                /\ last'.ensured
       /\ ~output_directory.is_none => ~output_directory'.is_none
       /\ dirs \subseteq dirs']_vars

C8_Witness ==
    /\ last.op = "dot"
    /\ last.ensured
    /\ last.result = "FileOperationError"
    /\ last.env = "unused"
    /\ DefaultRoot \notin dirs
    /\ output_directory = Dir(DefaultRoot)

\* C10: generate_png reports success only if the .png file exists at the
\* confined path after rendering; when the renderer raises, or returns with
\* the file absent, the call ends in FileOperationError; the path checked for
\* existence is the path that was confined.
C10_SuccessOnlyIfPngExists ==
    last.op = "png" =>
        /\ last.result = "ok" =>
              /\ last.path = last.confined
              /\ Resolve(last.confined, symlinks) \in DOMAIN files
              /\ IsRelativeTo(Resolve(last.confined, symlinks), InForce)
        /\ last.env = "raise" => last.result = "FileOperationError"
        /\ (last.env = "nofile" /\ Resolve(last.confined, symlinks) \notin DOMAIN files)
              => last.result = "FileOperationError"
        /\ last.checked # AbsPath(<<>>) => last.checked = last.confined

C10_Witness ==
    /\ last.op = "png"
    /\ last.name = N_a_b
    /\ last.env = "nofile"
    /\ last.checked = AbsPath(NewRoot \o <<N_a_b \o Ext_png>>)
    /\ last.result = "FileOperationError"

\* ------------------------------------------------------------------------
\* Specification of concurrent calls: one thread in set_output_location_file,
\* one in generate_dot_file, a step per access to _output_directory
\* ------------------------------------------------------------------------
ConcDescInputs == {D_unbalanced, D_G}
ConcNameInputs == {N_t1, S_lnk}

ConcInit == Init

\* set_output_location_file up to the writability check
SetBegin ==
    /\ setter.pc = "idle"
    /\ setter.rounds < MaxRounds
    /\ \E directory_path \in SetInputs :
          LET o == set_output_location_file(State, directory_path)
          IN  /\ dirs' = o.dirs
              /\ setter' = IF o.result = "ok"
                           THEN [setter EXCEPT !.pc = "assign", !.arg = directory_path,
                                               !.pending = o.root]
                           ELSE [setter EXCEPT !.arg = directory_path,
                                               !.rounds = setter.rounds + 1]
    /\ UNCHANGED <<output_directory, files, symlinks, last, calls, gen, sn, pg, cv>>

\* _output_directory = validated_path
SetAssign ==
    /\ setter.pc = "assign"
    /\ output_directory' = setter.pending
    /\ setter' = [setter EXCEPT !.pc = "idle", !.rounds = setter.rounds + 1]
    /\ UNCHANGED <<dirs, files, symlinks, last, calls, gen, sn, pg, cv>>

\* generate_dot_file: validate_dot_content(dot_content)
GenBegin ==
    /\ gen.pc = "idle"
    /\ gen.rounds < MaxRounds
    /\ \E dot_content \in ConcDescInputs, filename \in ConcNameInputs :
          LET v == validate_dot_content(dot_content, IsValidDot(dot_content))
          IN  gen' = IF v.ok
                     THEN [GenIdle EXCEPT !.pc = "ens_test", !.desc = dot_content,
                                          !.name = filename, !.rounds = gen.rounds]
                     ELSE [GenIdle EXCEPT !.desc = dot_content, !.name = filename,
                                          !.result = "DOTSyntaxError",
                                          !.rounds = gen.rounds + 1]
    /\ UNCHANGED <<output_directory, dirs, files, symlinks, last, calls, setter, sn, pg, cv>>

\* ensure_output_directory: if _output_directory is None
EnsTest ==
    /\ gen.pc = "ens_test"
    /\ gen' = [gen EXCEPT !.pc = IF output_directory.is_none
                                 THEN "ens_init" ELSE "ens_mkdir"]
    /\ UNCHANGED <<output_directory, dirs, files, symlinks, last, calls, setter, sn, pg, cv>>

\* ensure_output_directory: _output_directory = Path(tempfile.gettempdir()) / ...
EnsInit ==
    /\ gen.pc = "ens_init"
    /\ output_directory' = Dir(DefaultRoot)
    /\ gen' = [gen EXCEPT !.pc = "ens_mkdir"]
    /\ UNCHANGED <<dirs, files, symlinks, last, calls, setter, sn, pg, cv>>

\* ensure_output_directory: _output_directory.mkdir(parents=True, exist_ok=True)
EnsMkdir ==
    /\ gen.pc = "ens_mkdir"
    /\ IF MkdirFails(output_directory.path, files)
       THEN /\ gen' = [gen EXCEPT !.pc = "idle", !.result = "FileOperationError",
                                  !.rounds = gen.rounds + 1]
            /\ dirs' = dirs
       ELSE /\ gen' = [gen EXCEPT !.pc = "ens_return",
                                  !.ensured = output_directory.path]
            /\ dirs' = Mkdir(output_directory.path, dirs)
    /\ UNCHANGED <<output_directory, files, symlinks, last, calls, setter, sn, pg, cv>>

\* ensure_output_directory: return _output_directory
EnsReturn ==
    /\ gen.pc = "ens_return"
    /\ gen' = [gen EXCEPT !.pc = "write", !.output_dir = output_directory.path]
    /\ UNCHANGED <<output_directory, dirs, files, symlinks, last, calls, setter, sn, pg, cv>>

\* generate_dot_file from sanitize_filename(filename) on
GenWrite ==
    /\ gen.pc = "write"
    /\ \E write_ok \in BOOLEAN :
          LET o == write_dot_file(Outcome(State), gen.output_dir, gen.desc,
                                  gen.name, write_ok)
          IN  /\ files' = o.files
              /\ gen' = [gen EXCEPT !.pc = "idle", !.result = o.result,
                                    !.rounds = gen.rounds + 1]
    /\ UNCHANGED <<output_directory, dirs, symlinks, last, calls, setter, sn, pg, cv>>

ConcNext ==
    \/ SetBegin \/ SetAssign
    \/ GenBegin \/ EnsTest \/ EnsInit \/ EnsMkdir \/ EnsReturn \/ GenWrite

SpecConc == ConcInit /\ [][ConcNext]_vars

\* the directories set_output_location_file can validate
ValidatedRoots == {NewRoot, <<S_srv, S_new>>}

\* C9: under any interleaving of set_output_location_file with a generate
\* call, the shared root is assigned only a validated directory, and the
\* generate call ensures, joins and confines against one and the same root,
\* which is the default or a validated directory.
C9_OneRootPerCall ==
    /\ setter.pc = "assign" => setter.pending.path \in ValidatedRoots
    /\ ~output_directory.is_none =>
          output_directory.path \in ValidatedRoots \cup {DefaultRoot}
    /\ gen.pc = "write" =>
          /\ gen.output_dir \in ValidatedRoots \cup {DefaultRoot}
          /\ gen.ensured = gen.output_dir
====
